---- MODULE Spec2Model ----
(***************************************************************************)
(* Model of the concurrent ingestion pipeline of qa-rag-system:            *)
(*   src/src/utils/document_loader.py  loaders, batch loader, factory      *)
(*   src/src/utils/text_processer.py   generate_chunks_from_sources        *)
(*   src/src/data_interactor.py        generate_chroma_db_from_urls/sources*)
(*   src/src/utils/cli.py              parse_args, validate_args           *)
(*                                                                         *)
(* Six specifications share the variables:                                 *)
(*   Spec       one BatchDocumentLoader.load_documents call                *)
(*   SpecWeb    one WebDocumentLoader.load call                            *)
(*   SpecEntry  one call of a batch entry point, from the source strings   *)
(*              to the value handed back to the caller                     *)
(*   SpecCli    one cli.parse_args call and the validate_args after it     *)
(*   SpecLive   Spec under the fairness of the asyncio event loop          *)
(*   SpecShared two load_documents calls on one BatchDocumentLoader        *)
(***************************************************************************)
EXTENDS Integers, Sequences, FiniteSets, TLC

VARIABLES
    \* ---- BatchDocumentLoader ------------------------------------------
    max_concurrent,    \* BatchDocumentLoader.max_concurrent
    semaphore,         \* free slots of BatchDocumentLoader.semaphore
    loaders,           \* the list handed to load_documents
    task,              \* task[i]: position of _load_with_semaphore(loaders[i])
    results,           \* results[i]: what gather collected for task i
    phase,             \* position of load_documents
    documents,         \* the flattened list (load_documents)
    seen_hashes,       \* _deduplicate_documents
    unique_documents,  \* _deduplicate_documents
    cursor,            \* index of the for loop of _deduplicate_documents
    output,            \* the list load_documents returned
    load_calls,        \* load_calls[i]: times loaders[i].load() was invoked
    finished,          \* the tasks in the order their load() ended
    \* ---- batch entry points -------------------------------------------
    entry,             \* which entry point is running
    sources,           \* its list of source strings
    idx,               \* index of its loader-building loop
    built,             \* the loaders list it is building
    skipped,           \* sources it logged as skipped
    entry_result,      \* what it handed back to its caller
    chunk_size,        \* its chunk_size argument
    chunk_overlap,     \* its chunk_overlap argument
    chunks,            \* what text_splitter.split_documents returned
    persisted,         \* the list handed to Chroma.from_documents
    \* ---- WebDocumentLoader --------------------------------------------
    web_in,            \* the loader and the response its GET will meet
    web_out,           \* what load() did
    \* ---- command line -------------------------------------------------
    cli_argv,          \* the argv handed to cli.parse_args
    cli_parsed,        \* what parse_args did
    cli_args,          \* the Namespace object, as it is now
    cli_out,           \* what validate_args did
    \* ---- a second call on the same BatchDocumentLoader ---------------
    second             \* the locals of a second load_documents call

batch_vars == <<max_concurrent, semaphore, loaders, task, results, phase,
                documents, seen_hashes, unique_documents, cursor, output,
                load_calls, finished>>
entry_vars == <<entry, sources, idx, built, skipped, entry_result,
                chunk_size, chunk_overlap, chunks, persisted>>
web_vars == <<web_in, web_out>>
cli_vars == <<cli_argv, cli_parsed, cli_args, cli_out>>
second_vars == <<second>>
vars == <<batch_vars, entry_vars, web_vars, cli_vars, second_vars>>

(***************************************************************************)
(* Bounds of the model.                                                    *)
(***************************************************************************)
MaxLoaders == 3
MaxConcurrent == 2
MaxSources == 2

(***************************************************************************)
(* Python values.                                                          *)
(***************************************************************************)
\* Python's None, and a present value: an optional is a tuple of 0 or 1 values.
None == <<>>
Some(x) == <<x>>

RECURSIVE SeqsUpTo(_, _)
SeqsUpTo(S, n) ==
    IF n = 0 THEN {<<>>}
    ELSE LET shorter == SeqsUpTo(S, n - 1)
         IN shorter \cup {Append(q, x) : q \in {r \in shorter : Len(r) = n - 1}, x \in S}

\* A text is known by its identity, the whitespace around it (pad) and the
\* length of what str.strip() leaves (core).
Text(id, pad, core) == [id |-> id, pad |-> pad, core |-> core]
TextLen(t) == t.pad + t.core
StripLen(t) == t.core

\* The threshold of "if not text_content or len(text_content.strip()) < 100".
MinContentLen == 100

\* The defaults of the chunk_size and chunk_overlap parameters.
DefaultChunkSize == 4000
DefaultChunkOverlap == 20

(***************************************************************************)
(* Documents.  metadata.get("content_hash") is None for a Document whose   *)
(* metadata has no such key.                                               *)
(***************************************************************************)
\* hashlib.md5(text.encode()).hexdigest(): equal texts, equal digests.
Md5(text) == <<"md5", text>>

\* processed_at is datetime.now().isoformat(): known here only as present.
Document(source_type, source, page, text, content_hash, title, content_length) ==
    [source_type |-> source_type, source |-> source, page |-> page,
     page_content |-> text, content_hash |-> content_hash, title |-> title,
     processed_at |-> Some("isoformat"), content_length |-> content_length]

\* What a load() ended with: a returned list, or an exception (its message).
Returned(docs, note) == [raised |-> FALSE, exc |-> None, docs |-> docs, note |-> note]
Raised(msg) == [raised |-> TRUE, exc |-> Some(msg), docs |-> <<>>, note |-> "raised"]

(***************************************************************************)
(* PDFDocumentLoader.load.  The file is what PyPDFLoader meets: unreadable *)
(* (missing, corrupt: PyPDFLoader raises) or a list of page texts.  No     *)
(* try/except surrounds the call and no content_hash is put in metadata.   *)
(***************************************************************************)
PdfFile(readable, pages) == [readable |-> readable, pages |-> pages]

pdf_load(pdf_path, file) ==
    IF ~file.readable
    THEN Raised({"pdf"})
    ELSE Returned([p \in 1..Len(file.pages) |->
                     Document("pdf", pdf_path, p, file.pages[p], None, None, None)],
                  "pages")

(***************************************************************************)
(* WebDocumentLoader.load.  The response is what the GET meets: the stage  *)
(* at which something raises (if any) with the markers its message holds,  *)
(* the HTTP status, and the HTML, known by what the two extractors and the *)
(* title search make of it.                                                *)
(***************************************************************************)
Html(primary, visible, title) == [primary |-> primary, visible |-> visible, title |-> title]
Response(failAt, msg, status, html) ==
    [failAt |-> failAt, msg |-> msg, status |-> status, html |-> html]

\* raise Exception(f"HTTP {response.status} for {self.url}")
HttpMessage(status) ==
    IF status = 403 THEN {"403"} ELSE IF status = 404 THEN {"404"} ELSE {}

\* "not text_content or len(text_content.strip()) < 100", text an optional.
IsSparseLoose(opt) == opt = None \/ TextLen(opt[1]) < MinContentLen
IsSparse(opt) == opt = None \/ TextLen(opt[1]) = 0 \/ StripLen(opt[1]) < MinContentLen

\* soup.get_text(separator=' ', strip=True) after decomposing
\* script/style/nav/header/footer.
soup_text(html) == Some(html.visible)

\* Lines 102-126: the extraction with its fallback; (text, method used).
extract_text_no_fallback(extract_method, html) ==
    IF extract_method = "trafilatura"
    THEN [text |-> html.primary, used |-> "trafilatura"]
    ELSE [text |-> soup_text(html), used |-> "beautifulsoup"]
extract_text(extract_method, html) ==
    IF extract_method = "trafilatura"
    THEN IF IsSparse(html.primary)
         THEN [text |-> soup_text(html), used |-> "beautifulsoup_fallback"]
         ELSE [text |-> html.primary, used |-> "trafilatura"]
    ELSE [text |-> soup_text(html), used |-> "beautifulsoup"]

\* _extract_title: the <title> text, "Untitled" without one or on any failure.
extract_title(resp) ==
    IF resp.failAt = "title" THEN "Untitled"
    ELSE IF resp.html.title = None THEN "Untitled"
    ELSE resp.html.title[1]

\* Lines 137-151: the content hash and the Document with its metadata.
web_document_trimmed(url, text, title) ==
    Document("web", url, 0, text, Md5(text), Some(title), Some(StripLen(text)))
web_document(url, text, title) ==
    Document("web", url, 0, text, Md5(text), Some(title), Some(TextLen(text)))

\* Lines 73-153: the body of the try.
web_try(url, extract_method, resp) ==
    IF resp.failAt \in {"ssl_setup", "fetch"} THEN Raised(resp.msg)
    ELSE IF resp.status # 200 THEN Raised(HttpMessage(resp.status))
    ELSE IF resp.failAt \in {"decode", "extract"} THEN Raised(resp.msg)
    ELSE LET x == extract_text(extract_method, resp.html)
         IN IF IsSparse(x.text) THEN Returned(<<>>, "little_content")
            ELSE IF resp.failAt = "hash" THEN Raised(resp.msg)
            ELSE Returned(<<web_document(url, x.text[1], extract_title(resp))>>, x.used)

\* Lines 160-169: the advisory if/elif chain over str(e).
classify(msg) ==
    IF "SSL" \in msg \/ "certificate" \in msg THEN "ssl"
    ELSE IF "timeout" \in msg THEN "timeout"
    ELSE IF "403" \in msg \/ "Forbidden" \in msg THEN "forbidden"
    ELSE IF "404" \in msg \/ "Not Found" \in msg THEN "not_found"
    ELSE IF "connection" \in msg THEN "connection"
    ELSE "unclassified"

\* Lines 155-171: except Exception: log, classify, return [].
except_handler_reraise(msg) ==
    IF classify(msg) = "timeout" THEN Raised(msg) ELSE Returned(<<>>, classify(msg))
except_handler(msg) == Returned(<<>>, classify(msg))

web_load(url, extract_method, resp) ==
    LET r == web_try(url, extract_method, resp)
    IN IF r.raised THEN except_handler(r.exc[1]) ELSE r

(***************************************************************************)
(* A loader, with what its source will answer when it is loaded.           *)
(***************************************************************************)
WebLoader(url, resp) ==
    [kind |-> "web", source |-> url, extract_method |-> "trafilatura",
     resp |-> Some(resp), file |-> None]
PdfLoader(pdf_path, file) ==
    [kind |-> "pdf", source |-> pdf_path, extract_method |-> "none",
     resp |-> None, file |-> Some(file)]

\* await loader.load()
load(loader) ==
    IF loader.kind = "web"
    THEN web_load(loader.source, loader.extract_method, loader.resp[1])
    ELSE pdf_load(loader.source, loader.file[1])

(***************************************************************************)
(* BatchDocumentLoader.                                                    *)
(***************************************************************************)
\* asyncio.Semaphore.acquire proceeds only while the value is positive.
can_acquire_always(value) == TRUE
can_acquire(value) == value > 0

\* "if content_hash": None and "" are false; a digest is neither.
truthy_always(content_hash) == TRUE
truthy(content_hash) == content_hash # None

\* Lines 203-209: the results in the order of the loaders; an exception
\* contributes nothing, a list is appended.
RECURSIVE flatten_abort(_)
flatten_abort(rs) ==
    IF rs = <<>> THEN <<>>
    ELSE IF \E i \in 1..Len(rs) : rs[i] # None /\ rs[i][1].raised THEN <<>>
    ELSE Head(rs)[1].docs \o flatten_abort(Tail(rs))
RECURSIVE flatten(_)
flatten(rs) ==
    IF rs = <<>> THEN <<>>
    ELSE IF Head(rs) = None THEN flatten(Tail(rs))
    ELSE IF Head(rs)[1].raised THEN flatten(Tail(rs))
    ELSE Head(rs)[1].docs \o flatten(Tail(rs))

Tasks == 1..Len(loaders)
Running == {i \in Tasks : task[i] = "running"}
Waiting == {i \in Tasks : task[i] = "waiting"}

\* "await asyncio.gather(*tasks, return_exceptions=True)" resumes once
\* every task has ended, by return or by exception.
gather_first_done == \E i \in Tasks : task[i] = "done"
gather_done == \A i \in Tasks : task[i] = "done"

\* Leaving "async with self.semaphore": __aexit__ releases the slot however
\* the body ended.
release_on_return(value, outcome) == IF outcome.raised THEN value ELSE value + 1
release(value, outcome) == value + 1

\* A task ends with what its one load() ended with: _load_with_semaphore
\* has no loop around it and load_documents makes one task per loader.
after_load_retry(outcome) == IF outcome.raised THEN "waiting" ELSE "done"
after_load(outcome) == "done"

\* gather hands back the tasks' results in the order of the tasks it was
\* given, whichever ended first.
FirstOpen(rs) == CHOOSE k \in 1..Len(rs) : rs[k] = None /\ \A j \in 1..(k - 1) : rs[j] # None
collect_as_completed(rs, i, outcome) == [rs EXCEPT ![FirstOpen(rs)] = Some(outcome)]
collect(rs, i, outcome) == [rs EXCEPT ![i] = Some(outcome)]

\* load_documents, lines 200-201: one task per loader, all started by gather.
\* (The semaphore is the one made in __init__.)
StartState(ls) ==
    /\ loaders = ls
    /\ task = [i \in 1..Len(ls) |-> "waiting"]
    /\ results = [i \in 1..Len(ls) |-> None]
    /\ phase = "gather"
    /\ documents = <<>>
    /\ seen_hashes = {}
    /\ unique_documents = <<>>
    /\ cursor = 0
    /\ output = <<>>
    /\ load_calls = [i \in 1..Len(ls) |-> 0]
    /\ finished = <<>>

\* _load_with_semaphore, line 216: "async with self.semaphore" entered.
\* Which waiting task the semaphore admits next is left open.
Acquire(i) ==
    /\ phase = "gather"
    /\ task[i] = "waiting"
    /\ can_acquire(semaphore)
    /\ semaphore' = semaphore - 1
    /\ task' = [task EXCEPT ![i] = "running"]
    /\ load_calls' = [load_calls EXCEPT ![i] = @ + 1]
    /\ UNCHANGED <<max_concurrent, loaders, results, phase, documents,
                   seen_hashes, unique_documents, cursor, output, finished>>
    /\ UNCHANGED <<entry_vars, web_vars, cli_vars, second_vars>>

\* _load_with_semaphore, lines 216-217: load() ends, by return or by
\* exception; the "async with" gives the slot back either way and gather
\* (return_exceptions=True) keeps what it ended with.
Finish(i) ==
    /\ phase = "gather"
    /\ task[i] = "running"
    /\ results' = collect(results, i, load(loaders[i]))
    /\ semaphore' = release(semaphore, load(loaders[i]))
    /\ task' = [task EXCEPT ![i] = after_load(load(loaders[i]))]
    /\ finished' = Append(finished, i)
    /\ UNCHANGED <<max_concurrent, loaders, phase, documents,
                   seen_hashes, unique_documents, cursor, output, load_calls>>
    /\ UNCHANGED <<entry_vars, web_vars, cli_vars, second_vars>>

\* load_documents, lines 201-212: gather has every result; flatten, and
\* enter _deduplicate_documents (lines 221-222).
Flatten ==
    /\ phase = "gather"
    /\ gather_done
    /\ documents' = flatten(results)
    /\ seen_hashes' = {}
    /\ unique_documents' = <<>>
    /\ cursor' = 1
    /\ phase' = "dedup"
    /\ UNCHANGED <<max_concurrent, semaphore, loaders, task, results, output,
                   load_calls, finished>>
    /\ UNCHANGED <<entry_vars, web_vars, cli_vars, second_vars>>

\* _deduplicate_documents, lines 224-232: one turn of the for loop.
DedupStep ==
    /\ phase = "dedup"
    /\ cursor <= Len(documents)
    /\ LET doc == documents[cursor]
           content_hash == doc.content_hash
       IN IF truthy(content_hash) /\ content_hash \in seen_hashes
          THEN UNCHANGED <<seen_hashes, unique_documents>>
          ELSE /\ seen_hashes' = IF truthy(content_hash)
                                 THEN seen_hashes \cup {content_hash}
                                 ELSE seen_hashes
               /\ unique_documents' = Append(unique_documents, doc)
    /\ cursor' = cursor + 1
    /\ UNCHANGED <<max_concurrent, semaphore, loaders, task, results, phase,
                   documents, output, load_calls, finished>>
    /\ UNCHANGED <<entry_vars, web_vars, cli_vars, second_vars>>

\* _deduplicate_documents, line 235, and load_documents, line 212.
DedupReturn ==
    /\ phase = "dedup"
    /\ cursor > Len(documents)
    /\ output' = unique_documents
    /\ phase' = "returned"
    /\ UNCHANGED <<max_concurrent, semaphore, loaders, task, results,
                   documents, seen_hashes, unique_documents, cursor,
                   load_calls, finished>>
    /\ UNCHANGED <<entry_vars, web_vars, cli_vars, second_vars>>

BatchNext ==
    \/ \E i \in Tasks : Acquire(i)
    \/ \E i \in Tasks : Finish(i)
    \/ Flatten
    \/ DedupStep
    \/ DedupReturn

(***************************************************************************)
(* The loaders and responses the batch is checked over.                    *)
(***************************************************************************)
TextA == Text("a", 0, MinContentLen)
TextB == Text("b", 1, MinContentLen)

PageOk(text) == Response("none", {}, 200, Html(Some(text), text, Some("Example Page Title")))
PageNotFound == Response("none", {}, 404, Html(None, TextA, None))

LoaderUniverse ==
    { WebLoader("https://a.test", PageOk(TextA)),
      WebLoader("https://b.test", PageOk(TextA)),
      WebLoader("https://b.test", PageOk(TextB)),
      WebLoader("https://c.test", PageNotFound),
      PdfLoader("paper.pdf", PdfFile(TRUE, <<TextA, TextA>>)),
      PdfLoader("broken.pdf", PdfFile(FALSE, <<>>)) }

EntryIdle ==
    /\ entry = "none"
    /\ sources = <<>>
    /\ idx = 0
    /\ built = <<>>
    /\ skipped = <<>>
    /\ entry_result = None
    /\ chunk_size = DefaultChunkSize
    /\ chunk_overlap = DefaultChunkOverlap
    /\ chunks = None
    /\ persisted = None

WebIdle ==
    /\ web_in = None
    /\ web_out = None

CliIdle ==
    /\ cli_argv = None
    /\ cli_parsed = None
    /\ cli_args = None
    /\ cli_out = None

SecondIdle == second = None

\* A caller made BatchDocumentLoader(max_concurrent) and calls
\* load_documents(loaders).
Init ==
    /\ max_concurrent \in 1..MaxConcurrent
    /\ semaphore = max_concurrent
    /\ \E ls \in SeqsUpTo(LoaderUniverse, MaxLoaders) : StartState(ls)
    /\ EntryIdle
    /\ WebIdle
    /\ CliIdle
    /\ SecondIdle

Next == BatchNext

Spec == Init /\ [][Next]_vars

(***************************************************************************)
(* Properties of one load_documents call (Spec).                           *)
(***************************************************************************)
HasHash(doc) == doc.content_hash # None

\* The documents of docs, in order, less each one whose content_hash an
\* earlier one of docs carries.
RepeatsEarlier(docs, i) ==
    /\ HasHash(docs[i])
    /\ \E j \in 1..(i - 1) : docs[j].content_hash = docs[i].content_hash
RECURSIVE FirstSeenFrom(_, _)
FirstSeenFrom(docs, i) ==
    IF i > Len(docs) THEN <<>>
    ELSE (IF RepeatsEarlier(docs, i) THEN <<>> ELSE <<docs[i]>>) \o FirstSeenFrom(docs, i + 1)
FirstSeen(docs) == FirstSeenFrom(docs, 1)

\* C1: at every moment of a load_documents call the number of loaders inside
\* their load() is at most max_concurrent.
C1_ConcurrencyBound == Cardinality(Running) <= max_concurrent
\* All slots are taken and a further loader waits for one.
C1_Witness ==
    /\ Cardinality(Running) = max_concurrent
    /\ Waiting # {}

\* The loaders whose load() raises or returns an empty list.
FailingLoaders == {i \in Tasks : load(loaders[i]).raised \/ load(loaders[i]).docs = <<>>}
RECURSIVE DocsOfOthers(_)
\* The Documents of the loaders from i on that do not fail, in loader order.
DocsOfOthers(i) ==
    IF i > Len(loaders) THEN <<>>
    ELSE (IF i \in FailingLoaders THEN <<>> ELSE load(loaders[i]).docs) \o DocsOfOthers(i + 1)
ExactlyOneFails == Cardinality(FailingLoaders) = 1

\* C2 as stated: with exactly one failing loader the call returns exactly the
\* Documents of the other loaders, unchanged in count.
C2_Original ==
    (phase = "returned" /\ ExactlyOneFails) => output = DocsOfOthers(1)
\* C2 as amended: with exactly one failing loader the call completes and
\* returns the other loaders' Documents, unchanged and in loader order, less
\* those whose content_hash an earlier one of them already carried.
C2_FailureIsolation ==
    (phase = "returned" /\ ExactlyOneFails) => output = FirstSeen(DocsOfOthers(1))
\* Three loaders, one of which raised, and the call returned the others'.
C2_Witness ==
    /\ phase = "returned"
    /\ ExactlyOneFails
    /\ Len(loaders) = 3
    /\ \E i \in Tasks : results[i][1].raised
    /\ output # <<>>

\* The distinct content_hash values carried by docs.
HashValues(docs) == {docs[i].content_hash : i \in {j \in 1..Len(docs) : HasHash(docs[j])}}

\* C4: a flattened sequence with M distinct content_hash values gives an
\* output of exactly M Documents, each the first seen for its hash.
C4_DedupCount ==
    phase = "returned" =>
        /\ Len(output) = Cardinality(HashValues(documents))
        /\ \A k \in 1..Len(output) :
              \E i \in 1..Len(documents) :
                  /\ documents[i] = output[k]
                  /\ HasHash(documents[i])
                  /\ ~RepeatsEarlier(documents, i)

\* C5: the result is the flattened sequence less the Documents whose
\* content_hash an earlier Document carries; order kept, nothing added or
\* changed, a Document without content_hash never removed.
C5_DedupIsFirstSeen ==
    phase = "returned" => output = FirstSeen(documents)
\* A duplicate was removed while a hashless Document whose content equals
\* that of an earlier Document stayed.
C5_Witness ==
    /\ phase = "returned"
    /\ Len(output) < Len(documents)
    /\ \E k \in 1..Len(output) : \E i \in 1..Len(documents) :
          /\ ~HasHash(output[k])
          /\ documents[i] # output[k]
          /\ documents[i].page_content = output[k].page_content

\* C9: every Document of the output has non-empty content and a non-empty
\* content_hash.
C9_OutputHashed ==
    phase = "returned" =>
        \A k \in 1..Len(output) :
            /\ TextLen(output[k].page_content) > 0
            /\ HasHash(output[k])

\* C13: no load failure leaves a loader, of either variant: every load()
\* the batch awaited ended by returning a list (empty for a corrupt or
\* unreadable PDF), none by raising to its caller.
C13_LoadNeverRaises ==
    \A i \in Tasks : results[i] # None => ~results[i][1].raised

\* C19: the flattened list, the dedup set and the result list change only
\* when every loader task of the batch has ended.
C19_AggregateAfterJoin ==
    [][(\/ documents' # documents
        \/ seen_hashes' # seen_hashes
        \/ unique_documents' # unique_documents
        \/ output' # output)
       => \A i \in Tasks : task[i] = "done" /\ results[i] # None]_vars
\* The dedup loop is under way, a hash noted, after three loaders (one of
\* which raised) ended.
C19_Witness ==
    /\ phase = "dedup"
    /\ seen_hashes # {}
    /\ Len(loaders) = 3
    /\ \E i \in Tasks : results[i][1].raised

\* C20: a task holds a slot exactly while it is inside load(); held plus free
\* slots are max_concurrent at every moment, whether loads end by return or
\* by exception, and all slots are free once the batch has completed.
C20_GuaranteedRelease ==
    /\ semaphore >= 0
    /\ Cardinality(Running) + semaphore = max_concurrent
    /\ phase \in {"dedup", "returned"} => semaphore = max_concurrent
\* The batch completed, a load having raised while others waited for a slot.
C20_Witness ==
    /\ phase = "returned"
    /\ Len(loaders) > max_concurrent
    /\ \E i \in Tasks : results[i][1].raised
    /\ semaphore = max_concurrent

\* C21: within one batch load every loader of the input list has its load()
\* invoked exactly once, whether it returns Documents, returns [] or raises:
\* never twice, and once the tasks are gathered none was left out.
C21_LoadedExactlyOnce ==
    /\ \A i \in Tasks : load_calls[i] = (IF task[i] = "waiting" THEN 0 ELSE 1)
    /\ phase \in {"dedup", "returned"} =>
          \A i \in Tasks : load_calls[i] = 1 /\ results[i] # None
\* The call returned after one loader raised, one returned [] and one
\* returned a Document, each invoked once.
C21_Witness ==
    /\ phase = "returned"
    /\ Len(loaders) = 3
    /\ \E i, j, k \in Tasks :
          /\ results[i][1].raised
          /\ ~results[j][1].raised /\ results[j][1].docs = <<>>
          /\ ~results[k][1].raised /\ results[k][1].docs # <<>>
    /\ \A i \in Tasks : load_calls[i] = 1

\* The loaders' Document lists, in the order of the input list; a loader
\* that raises gives none.
RECURSIVE InInputOrder(_)
InInputOrder(ls) ==
    IF ls = <<>> THEN <<>>
    ELSE (IF load(Head(ls)).raised THEN <<>> ELSE load(Head(ls)).docs)
         \o InInputOrder(Tail(ls))

\* C24: whatever order the loaders were admitted and ended in, the flattened
\* sequence is the loaders' lists in input order, page order intact, and the
\* result is that sequence less later repeats of a content_hash: the
\* survivor comes from the earliest loader and the result depends on the
\* loaders' results alone.
C24_ScheduleIndependent ==
    /\ phase \in {"dedup", "returned"} => documents = InInputOrder(loaders)
    /\ phase = "returned" => output = FirstSeen(InInputOrder(loaders))
\* The second loader ended before the first, both gave the same content, and
\* the Document kept is the first loader's.
C24_Witness ==
    /\ phase = "returned"
    /\ Len(finished) >= 2
    /\ finished[1] = 2
    /\ loaders[1].source # loaders[2].source
    /\ Len(documents) > Len(output)
    /\ output # <<>>
    /\ output[1].source = loaders[1].source
    /\ \E i \in 1..Len(documents) :
          /\ documents[i].source = loaders[2].source
          /\ documents[i].content_hash = output[1].content_hash

(***************************************************************************)
(* SpecLive: one load_documents call under the scheduling asyncio gives:   *)
(* the event loop runs every coroutine that can go on, the semaphore wakes *)
(* a waiter whenever a slot is free, and every load() that was begun ends. *)
(***************************************************************************)
Fairness ==
    /\ \A i \in 1..MaxLoaders : WF_vars(i \in Tasks /\ Acquire(i))
    /\ \A i \in 1..MaxLoaders : WF_vars(i \in Tasks /\ Finish(i))
    /\ WF_vars(Flatten)
    /\ WF_vars(DedupStep)
    /\ WF_vars(DedupReturn)

\* Loaders that return a Document, return [] and raise.
LiveLoaders ==
    { WebLoader("https://a.test", PageOk(TextA)),
      WebLoader("https://c.test", PageNotFound),
      PdfLoader("broken.pdf", PdfFile(FALSE, <<>>)) }

InitLive ==
    /\ max_concurrent \in 1..MaxConcurrent
    /\ semaphore = max_concurrent
    /\ \E ls \in SeqsUpTo(LiveLoaders, MaxLoaders) : StartState(ls)
    /\ EntryIdle
    /\ WebIdle
    /\ CliIdle
    /\ SecondIdle

SpecLive == InitLive /\ [][Next]_vars /\ Fairness

\* C23: for max_concurrent >= 1 and a finite loader list whose loads all
\* end, every loader waiting for a slot is eventually admitted and the call
\* eventually returns, also with more loaders than slots and with failures.
C23_Liveness ==
    /\ \A i \in 1..MaxLoaders :
          (i \in Tasks /\ task[i] = "waiting") ~> (i \in Tasks /\ task[i] = "running")
    /\ <>(phase = "returned")
\* The call returned with one slot for three loaders, the first of which
\* raised, so that the others were admitted only after a failure.
C23_Witness ==
    /\ phase = "returned"
    /\ max_concurrent = 1
    /\ Len(loaders) = 3
    /\ results[1][1].raised
    /\ finished[1] = 1
    /\ \A i \in Tasks : results[i] # None

(***************************************************************************)
(* SpecShared: two load_documents calls on one BatchDocumentLoader.  The   *)
(* second may begin while the first is under way or after it returned.     *)
(* self.semaphore is the one made in __init__ and serves both; tasks,      *)
(* results, documents, seen_hashes and unique_documents are locals of each *)
(* call.  The first call lives in the batch variables, the second in the   *)
(* record second.                                                          *)
(***************************************************************************)
MaxCallLoaders == 2

SharedLoaders ==
    { WebLoader("https://a.test", PageOk(TextA)),
      WebLoader("https://b.test", PageOk(TextA)),
      PdfLoader("broken.pdf", PdfFile(FALSE, <<>>)) }

InitShared ==
    /\ max_concurrent \in 1..MaxConcurrent
    /\ semaphore = max_concurrent
    /\ \E ls \in SeqsUpTo(SharedLoaders, MaxCallLoaders) : StartState(ls)
    /\ EntryIdle
    /\ WebIdle
    /\ CliIdle
    /\ SecondIdle

SecondTasks == IF second = None THEN {} ELSE 1..Len(second[1].loaders)
SecondRunning == {i \in SecondTasks : second[1].task[i] = "running"}

\* load_documents(ls) once more on the same object, lines 200-201.
SecondCall(ls) ==
    /\ second = None
    /\ second' = Some([loaders |-> ls,
                       task |-> [i \in 1..Len(ls) |-> "waiting"],
                       results |-> [i \in 1..Len(ls) |-> None],
                       phase |-> "gather",
                       documents |-> <<>>,
                       seen_hashes |-> {},
                       unique_documents |-> <<>>,
                       cursor |-> 0,
                       output |-> <<>>])
    /\ UNCHANGED <<batch_vars, entry_vars, web_vars, cli_vars>>

\* _load_with_semaphore of the second call, line 216.
SecondAcquire(i) ==
    /\ second[1].phase = "gather"
    /\ second[1].task[i] = "waiting"
    /\ can_acquire(semaphore)
    /\ semaphore' = semaphore - 1
    /\ second' = Some([second[1] EXCEPT !.task[i] = "running"])
    /\ UNCHANGED <<max_concurrent, loaders, task, results, phase, documents,
                   seen_hashes, unique_documents, cursor, output, load_calls,
                   finished, entry_vars, web_vars, cli_vars>>

\* _load_with_semaphore of the second call, lines 216-217.
SecondFinish(i) ==
    /\ second[1].phase = "gather"
    /\ second[1].task[i] = "running"
    /\ semaphore' = release(semaphore, load(second[1].loaders[i]))
    /\ second' = Some([second[1] EXCEPT
                          !.results = collect(@, i, load(second[1].loaders[i])),
                          !.task[i] = after_load(load(second[1].loaders[i]))])
    /\ UNCHANGED <<max_concurrent, loaders, task, results, phase, documents,
                   seen_hashes, unique_documents, cursor, output, load_calls,
                   finished, entry_vars, web_vars, cli_vars>>

\* The second call's gather has every result: lines 201-212, 221-222.
SecondFlatten ==
    /\ second # None
    /\ second[1].phase = "gather"
    /\ \A i \in SecondTasks : second[1].task[i] = "done"
    /\ second' = Some([second[1] EXCEPT !.documents = flatten(second[1].results),
                                        !.seen_hashes = {},
                                        !.unique_documents = <<>>,
                                        !.cursor = 1,
                                        !.phase = "dedup"])
    /\ UNCHANGED <<batch_vars, entry_vars, web_vars, cli_vars>>

\* One turn of the second call's _deduplicate_documents loop, lines 224-232.
SecondDedupStep ==
    /\ second # None
    /\ second[1].phase = "dedup"
    /\ second[1].cursor <= Len(second[1].documents)
    /\ LET doc == second[1].documents[second[1].cursor]
           content_hash == doc.content_hash
       IN IF truthy(content_hash) /\ content_hash \in second[1].seen_hashes
          THEN second' = Some([second[1] EXCEPT !.cursor = @ + 1])
          ELSE second' = Some([second[1] EXCEPT
                                  !.seen_hashes = IF truthy(content_hash)
                                                  THEN @ \cup {content_hash} ELSE @,
                                  !.unique_documents = Append(@, doc),
                                  !.cursor = @ + 1])
    /\ UNCHANGED <<batch_vars, entry_vars, web_vars, cli_vars>>

\* The second call returns, lines 235 and 212.
SecondDedupReturn ==
    /\ second # None
    /\ second[1].phase = "dedup"
    /\ second[1].cursor > Len(second[1].documents)
    /\ second' = Some([second[1] EXCEPT !.output = second[1].unique_documents,
                                        !.phase = "returned"])
    /\ UNCHANGED <<batch_vars, entry_vars, web_vars, cli_vars>>

NextShared ==
    \/ \E i \in Tasks : Acquire(i)
    \/ \E i \in Tasks : Finish(i)
    \/ Flatten
    \/ DedupStep
    \/ DedupReturn
    \/ \E ls \in SeqsUpTo(SharedLoaders, MaxCallLoaders) : SecondCall(ls)
    \/ \E i \in SecondTasks : SecondAcquire(i)
    \/ \E i \in SecondTasks : SecondFinish(i)
    \/ SecondFlatten
    \/ SecondDedupStep
    \/ SecondDedupReturn

SpecShared == InitShared /\ [][NextShared]_vars

\* C22: the limiter and the dedup set belong to one call.  A call with a
\* loader waiting and fewer than max_concurrent loaders of its own inside
\* load() has a free slot for it, whatever the other call holds; and each
\* call returns its own loaders' Documents less its own repeats, whatever
\* hashes the other call has seen.
C22_CallScoped ==
    second # None =>
        /\ (Waiting # {} /\ Cardinality(Running) < max_concurrent) => semaphore > 0
        /\ (\E i \in SecondTasks : second[1].task[i] = "waiting")
              /\ Cardinality(SecondRunning) < max_concurrent
              => semaphore > 0
        /\ phase = "returned" => output = FirstSeen(InInputOrder(loaders))
        /\ second[1].phase = "returned" =>
              second[1].output = FirstSeen(InInputOrder(second[1].loaders))

(***************************************************************************)
(* SpecWeb: one WebDocumentLoader(url, extract_method).load() against every*)
(* response in WebResponses.                                               *)
(***************************************************************************)
BatchIdle ==
    /\ max_concurrent = MaxConcurrent
    /\ semaphore = max_concurrent
    /\ loaders = <<>>
    /\ task = <<>>
    /\ results = <<>>
    /\ phase = "idle"
    /\ documents = <<>>
    /\ seen_hashes = {}
    /\ unique_documents = <<>>
    /\ cursor = 0
    /\ output = <<>>
    /\ load_calls = <<>>
    /\ finished = <<>>

\* Texts on both sides of the threshold, with and without whitespace around.
PrimaryTexts == {Text("p", pad, core) : pad \in {0, 1},
                                        core \in {0, MinContentLen - 1, MinContentLen}}
\* get_text(strip=True) leaves no whitespace around.
VisibleTexts == {Text("v", 0, core) : core \in {0, MinContentLen - 1, MinContentLen,
                                                 MinContentLen + 1}}

FailStages == {"none", "ssl_setup", "fetch", "decode", "extract", "hash", "title"}
Messages == {{}, {"SSL"}, {"timeout"}, {"403"}, {"Not Found"}, {"connection"},
             {"timeout", "connection"}}
Statuses == {200, 403, 404, 500}

WebResponses ==
    {Response(f, m, st, Html(pr, vi, ti)) :
        f \in FailStages, m \in Messages, st \in Statuses,
        pr \in {None} \cup {Some(t) : t \in PrimaryTexts},
        vi \in VisibleTexts,
        ti \in {None, Some("Example Page Title")}}

InitWeb ==
    /\ BatchIdle
    /\ EntryIdle
    /\ \E method \in {"trafilatura", "beautifulsoup"}, resp \in WebResponses :
          web_in = Some([url |-> "https://example.test", extract_method |-> method,
                         resp |-> resp])
    /\ web_out = None
    /\ CliIdle
    /\ SecondIdle

\* documents = await loader.load()
WebLoadCall ==
    /\ web_in # None
    /\ web_out = None
    /\ web_out' = Some(web_load(web_in[1].url, web_in[1].extract_method, web_in[1].resp))
    /\ UNCHANGED <<web_in, batch_vars, entry_vars, cli_vars, second_vars>>

NextWeb == WebLoadCall

SpecWeb == InitWeb /\ [][NextWeb]_vars

WebDone == web_out # None
WebResp == web_in[1].resp
WebDocs == web_out[1].docs

\* Something raises inside the try of load(): connection setup, fetch, the
\* non-200 status, decoding, extraction or hashing.
RaisedInTry ==
    \/ WebResp.failAt \in {"ssl_setup", "fetch"}
    \/ WebResp.status # 200
    \/ WebResp.failAt \in {"decode", "extract"}
    \/ WebResp.failAt = "hash"
\* Title extraction failed.
TitleFailed == WebResp.failAt = "title"

\* C3 as stated: no exception leaves load(), and whatever fails, title
\* extraction included, load() returns an empty list.
C3_Original ==
    WebDone =>
        /\ ~web_out[1].raised
        /\ (RaisedInTry \/ TitleFailed) => WebDocs = <<>>
\* C3 as amended: no exception leaves load(); a failure of connection setup,
\* fetch, decoding, extraction or hashing (or a non-200 status) ends in an
\* empty list whatever its advisory classification; a failure of title
\* extraction does not: it gives the title "Untitled" to the Document that
\* load() returns all the same.
C3_NoExceptionEscapes ==
    WebDone =>
        /\ ~web_out[1].raised
        /\ RaisedInTry => WebDocs = <<>>
        /\ (TitleFailed /\ WebDocs # <<>>) => WebDocs[1].title = Some("Untitled")
\* A fetch timed out, was classified as such, and load() returned [].
C3_Witness ==
    /\ WebDone
    /\ WebResp.failAt = "fetch"
    /\ "timeout" \in WebResp.msg
    /\ web_out[1].note = "timeout"
    /\ WebDocs = <<>>
    /\ ~web_out[1].raised

\* The text the extraction settles on, after any fallback.
FinalText ==
    LET html == WebResp.html
    IN IF /\ web_in[1].extract_method = "trafilatura"
          /\ html.primary # None
          /\ StripLen(html.primary[1]) >= MinContentLen
       THEN html.primary[1]
       ELSE html.visible

\* C10: load() returns a Document only when the status is 200 and the
\* extracted text, after any fallback, has trimmed length >= 100; a non-200
\* status or a shorter text gives the empty list.
C10_StatusAndThreshold ==
    WebDone =>
        /\ Len(WebDocs) <= 1
        /\ WebDocs # <<>> =>
              /\ WebResp.status = 200
              /\ WebDocs[1].page_content = FinalText
              /\ StripLen(WebDocs[1].page_content) >= MinContentLen
        /\ (WebResp.status # 200 \/ StripLen(FinalText) < MinContentLen) => WebDocs = <<>>
\* The status is 200 and the primary text is 100 characters long but only 99
\* once trimmed: the fallback text was taken and came back as the Document.
C10_Witness ==
    /\ WebDone
    /\ WebResp.status = 200
    /\ WebResp.html.primary # None
    /\ TextLen(WebResp.html.primary[1]) >= MinContentLen
    /\ StripLen(WebResp.html.primary[1]) < MinContentLen
    /\ web_out[1].note = "beautifulsoup_fallback"
    /\ WebDocs # <<>>

\* The primary (trafilatura) result is absent or under 100 trimmed characters.
PrimarySparse ==
    \/ WebResp.html.primary = None
    \/ StripLen(WebResp.html.primary[1]) < MinContentLen
\* The GET answered 200 and nothing raises.
CleanFetch == WebResp.status = 200 /\ WebResp.failAt = "none"

\* C11: with the primary strategy configured, the structural (fallback) text
\* is the content exactly when the primary result is absent or under 100
\* trimmed characters, else the primary result is the content unchanged; so
\* a page whose primary extraction is sparse and whose visible text exceeds
\* 100 characters gives exactly one Document, with non-empty content and the
\* <title> text as title.
C11_ExtractionFallback ==
    (WebDone /\ web_in[1].extract_method = "trafilatura") =>
        /\ WebDocs # <<>> =>
              IF PrimarySparse
              THEN /\ WebDocs[1].page_content = WebResp.html.visible
                   /\ web_out[1].note = "beautifulsoup_fallback"
              ELSE /\ WebDocs[1].page_content = WebResp.html.primary[1]
                   /\ WebDocs[1].page_content # WebResp.html.visible
                   /\ web_out[1].note = "trafilatura"
        /\ (CleanFetch /\ PrimarySparse /\ StripLen(WebResp.html.visible) > MinContentLen) =>
              /\ Len(WebDocs) = 1
              /\ TextLen(WebDocs[1].page_content) > 0
              /\ WebResp.html.title # None => WebDocs[1].title = WebResp.html.title
\* The primary extraction gave 99 characters, the visible text has 101 and
\* the page a <title>: one Document came back with that title.
C11_Witness ==
    /\ WebDone
    /\ web_in[1].extract_method = "trafilatura"
    /\ CleanFetch
    /\ WebResp.html.primary # None
    /\ StripLen(WebResp.html.primary[1]) = MinContentLen - 1
    /\ StripLen(WebResp.html.visible) > MinContentLen
    /\ Len(WebDocs) = 1
    /\ WebDocs[1].title = Some("Example Page Title")

\* Another loader, of another URL, whose page extracts to text.
OtherLoad(text) ==
    web_load("https://other.test", "trafilatura",
             Response("none", {}, 200, Html(Some(text), text, None)))

\* C12: a successful load() returns exactly one Document whose metadata holds
\* source_type web, the loader's URL, a title, processed_at, the hash of
\* exactly the returned content and the length of the returned content; a
\* second load that extracts identical text gets the identical content_hash.
C12_WebMetadata ==
    (WebDone /\ WebDocs # <<>>) =>
        /\ Len(WebDocs) = 1
        /\ WebDocs[1].source_type = "web"
        /\ WebDocs[1].source = web_in[1].url
        /\ WebDocs[1].title # None
        /\ WebDocs[1].processed_at # None
        /\ WebDocs[1].content_hash = <<"md5", WebDocs[1].page_content>>
        /\ WebDocs[1].content_length = Some(WebDocs[1].page_content.pad
                                            + WebDocs[1].page_content.core)
        /\ \A text \in PrimaryTexts \cup VisibleTexts :
              LET other == OtherLoad(text).docs
              IN (other # <<>> /\ other[1].page_content = WebDocs[1].page_content)
                    => other[1].content_hash = WebDocs[1].content_hash
\* A Document whose content has whitespace around it came back, and a load
\* of another URL extracts the same text.
C12_Witness ==
    /\ WebDone
    /\ WebDocs # <<>>
    /\ WebDocs[1].page_content.pad > 0
    /\ \E text \in PrimaryTexts :
          /\ OtherLoad(text).docs # <<>>
          /\ OtherLoad(text).docs[1].page_content = WebDocs[1].page_content
          /\ OtherLoad(text).docs[1].source # WebDocs[1].source

(***************************************************************************)
(* SpecEntry: one call of a batch entry point.                             *)
(*   "chunks_from_sources"  text_processer.generate_chunks_from_sources    *)
(*   "chroma_from_urls"     data_interactor.generate_chroma_db_from_urls   *)
(*   "chroma_from_sources"  data_interactor.generate_chroma_db_from_sources*)
(* A source string is known by what the code reads of it: its scheme       *)
(* prefix, its last characters (ext), whether Path(source).exists(), and   *)
(* what loading it will meet.                                              *)
(***************************************************************************)
Source(name, scheme, ext, exists, resp, file) ==
    [name |-> name, scheme |-> scheme, ext |-> ext, exists |-> exists,
     resp |-> resp, file |-> file]

\* str.lower() of the last characters.
Lower(ext) == IF ext = ".PDF" THEN ".pdf" ELSE IF ext = ".Pdf" THEN ".pdf" ELSE ext

\* create_document_loader: the loader, or None for "raise ValueError".
create_document_loader(source) ==
    IF source.scheme \in {"http://", "https://"}
    THEN Some(WebLoader(source.name, source.resp[1]))
    ELSE IF source.ext = ".pdf"
    THEN Some(PdfLoader(source.name, source.file[1]))
    ELSE None

SourceUniverse ==
    { Source("https://a.test/page", "https://", "", FALSE, Some(PageOk(TextA)), None),
      Source("http://c.test/gone", "http://", "", FALSE, Some(PageNotFound), None),
      Source("paper.pdf", "", ".pdf", TRUE, None, Some(PdfFile(TRUE, <<TextA, TextB>>))),
      Source("SCAN.PDF", "", ".PDF", TRUE, None, Some(PdfFile(TRUE, <<TextB>>))),
      Source("lost.PDF", "", ".PDF", FALSE, None, Some(PdfFile(FALSE, <<>>))),
      Source("notes.txt", "", ".txt", TRUE, None, None),
      Source("README", "", "", FALSE, None, None) }

EntryPoints == {"chunks_from_sources", "chroma_from_urls", "chroma_from_sources"}

\* The chunk_size and chunk_overlap a caller passes: the defaults, or a
\* chunk size below the length of one page.
SmallChunkSize == 40
ChunkSizes == {SmallChunkSize, DefaultChunkSize}
ChunkOverlaps == {0, DefaultChunkOverlap}
entry_args == <<chunk_size, chunk_overlap>>

(***************************************************************************)
(* The Chunker: RecursiveCharacterTextSplitter of the langchain library,   *)
(* as the entry point configures it.  A page_content is taken as one run   *)
(* of TextLen characters holding none of the separators "\n\n", "\n", " ",*)
(* so that the splitter comes down to its last separator "" and merges     *)
(* single characters; a stretch of it occurs in it at one place only.      *)
(***************************************************************************)
Min(a, b) == IF a < b THEN a ELSE b
Max(a, b) == IF a > b THEN a ELSE b

\* RecursiveCharacterTextSplitter(chunk_size=chunk_size,
\*     chunk_overlap=chunk_overlap, length_function=len, add_start_index=True)
splitter_config_no_index(size, overlap) ==
    [chunk_size |-> size, chunk_overlap |-> overlap, add_start_index |-> FALSE]
splitter_config_default_size(size, overlap) ==
    [chunk_size |-> DefaultChunkSize, chunk_overlap |-> overlap, add_start_index |-> TRUE]
splitter_config(size, overlap) ==
    [chunk_size |-> size, chunk_overlap |-> overlap, add_start_index |-> TRUE]

\* The stretches the splitter cuts a run of length characters into, from
\* position from on: a chunk is closed when the next character would take
\* it past chunk_size, and the next one opens with its last chunk_overlap
\* characters.
RECURSIVE merge_splits(_, _, _)
merge_splits(length, from, cfg) ==
    IF length = 0 THEN <<>>
    ELSE <<[from |-> from, len |-> Min(cfg.chunk_size, length - from)]>> \o
         (IF length > from + cfg.chunk_size
          THEN merge_splits(length, from + cfg.chunk_size - cfg.chunk_overlap, cfg)
          ELSE <<>>)

\* text.find(chunk, offset): where the stretch is, looked for from offset on.
find(stretch, offset) == IF stretch.from >= offset THEN stretch.from ELSE -1

\* A Document's metadata: all it carries but its page_content.
metadata_of(doc) == [k \in DOMAIN doc \ {"page_content"} |-> doc[k]]

\* create_documents: one chunk per stretch, with a copy of the parent's
\* metadata and, under add_start_index, the start_index found from the
\* end of the previous chunk less the overlap.  parent is the position in
\* the input list of the Document the chunk was cut from (kept for the
\* properties; not a metadata key).
RECURSIVE create_documents(_, _, _, _, _, _)
create_documents(doc, parent, cfg, stretches, index, previous_chunk_len) ==
    IF stretches = <<>> THEN <<>>
    ELSE LET stretch == Head(stretches)
             offset == index + previous_chunk_len - cfg.chunk_overlap
             found == find(stretch, Max(0, offset))
         IN <<[page_content |-> [of |-> doc.page_content,
                                 from |-> stretch.from, len |-> stretch.len],
               metadata |-> metadata_of(doc),
               start_index |-> IF cfg.add_start_index THEN Some(found) ELSE None,
               parent |-> parent]>> \o
            create_documents(doc, parent, cfg, Tail(stretches),
                             IF cfg.add_start_index THEN found ELSE index,
                             stretch.len)

\* split_documents(documents): the chunks of each Document, in list order.
RECURSIVE split_from(_, _, _)
split_from(docs, parent, cfg) ==
    IF parent > Len(docs) THEN <<>>
    ELSE create_documents(docs[parent], parent, cfg,
                          merge_splits(TextLen(docs[parent].page_content), 0, cfg),
                          0, 0) \o
         split_from(docs, parent + 1, cfg)
split_documents(docs, cfg) == split_from(docs, 1, cfg)

\* What an entry point hands to its caller.
EntryReturned(value) == Some([how |-> "returned", value |-> value, exc |-> "none"])
EntryRaised(exc) == Some([how |-> "raised", value |-> "none", exc |-> exc])

InitEntry ==
    /\ max_concurrent \in 1..MaxConcurrent
    /\ semaphore = max_concurrent
    /\ loaders = <<>>
    /\ task = <<>>
    /\ results = <<>>
    /\ phase = "idle"
    /\ documents = <<>>
    /\ seen_hashes = {}
    /\ unique_documents = <<>>
    /\ cursor = 0
    /\ output = <<>>
    /\ load_calls = <<>>
    /\ finished = <<>>
    /\ entry \in EntryPoints
    /\ sources \in SeqsUpTo(SourceUniverse, MaxSources)
    /\ idx = 1
    /\ built = <<>>
    /\ skipped = <<>>
    /\ entry_result = None
    /\ chunk_size \in ChunkSizes
    /\ chunk_overlap \in ChunkOverlaps
    /\ chunk_overlap < chunk_size
    /\ chunks = None
    /\ persisted = None
    /\ WebIdle
    /\ CliIdle
    /\ SecondIdle

\* One turn of the loader-building loop:
\*   generate_chunks_from_sources      text_processer.py 54-60
\*   generate_chroma_db_from_urls      data_interactor.py 71-75
\*   generate_chroma_db_from_sources   data_interactor.py 107-115, whose
\*     except branch calls create_document_loader(s) a second time.
EntryBuild ==
    /\ entry_result = None
    /\ phase = "idle"
    /\ idx <= Len(sources)
    /\ LET s == sources[idx]
           made == create_document_loader(s)
       IN IF made # None
          THEN /\ built' = Append(built, made[1])
               /\ UNCHANGED <<skipped, entry_result>>
          ELSE IF entry = "chroma_from_sources" /\ s.exists /\ Lower(s.ext) = ".pdf"
          THEN IF create_document_loader(s) # None
               THEN /\ built' = Append(built, create_document_loader(s)[1])
                    /\ UNCHANGED <<skipped, entry_result>>
               ELSE /\ entry_result' = EntryRaised("ValueError")
                    /\ UNCHANGED <<built, skipped>>
          ELSE /\ skipped' = Append(skipped, s.name)
               /\ UNCHANGED <<built, entry_result>>
    /\ idx' = idx + 1
    /\ UNCHANGED <<entry, sources, entry_args, chunks, persisted, batch_vars, web_vars, cli_vars, second_vars>>

\* "if not loaders": return [] (text_processer.py 62-64) or None
\* (data_interactor.py 77-79, 117-119).
EntryNoLoaders ==
    /\ entry_result = None
    /\ phase = "idle"
    /\ idx > Len(sources)
    /\ built = <<>>
    /\ entry_result' = EntryReturned(IF entry = "chunks_from_sources"
                                     THEN "empty_list" ELSE "None")
    /\ UNCHANGED <<entry, sources, idx, built, skipped, entry_args, chunks,
                   persisted, batch_vars, web_vars, cli_vars, second_vars>>

\* BatchDocumentLoader(max_concurrent=max_concurrent) and the call of
\* load_documents(loaders): text_processer.py 67-68, data_interactor.py
\* 81-84, 121-124.
EntryStartBatch ==
    /\ entry_result = None
    /\ phase = "idle"
    /\ idx > Len(sources)
    /\ built # <<>>
    /\ semaphore' = max_concurrent
    /\ loaders' = built
    /\ task' = [i \in 1..Len(built) |-> "waiting"]
    /\ results' = [i \in 1..Len(built) |-> None]
    /\ load_calls' = [i \in 1..Len(built) |-> 0]
    /\ finished' = <<>>
    /\ phase' = "gather"
    /\ UNCHANGED <<max_concurrent, documents, seen_hashes, unique_documents,
                   cursor, output, entry_vars, web_vars, cli_vars, second_vars>>

\* After load_documents: "if not documents: return []" and the chunks
\* (text_processer.py 70-85), or _persist_documents_to_chroma(documents)
\* (data_interactor.py 42-50, 89, 129), which hands the list it was given
\* to Chroma.from_documents.  load_documents gathers with
\* return_exceptions=True and raises nothing, so the "except Exception:
\* return None" around it (data_interactor.py 85-87, 125-127) has no case.
EntryFinish ==
    /\ entry_result = None
    /\ phase = "returned"
    /\ entry \in EntryPoints
    /\ IF entry = "chunks_from_sources"
       THEN IF output = <<>>
            THEN /\ entry_result' = EntryReturned("empty_list")
                 /\ UNCHANGED <<chunks, persisted>>
            ELSE /\ chunks' = Some(split_documents(output,
                                     splitter_config(chunk_size, chunk_overlap)))
                 /\ entry_result' = EntryReturned("chunks")
                 /\ UNCHANGED persisted
       ELSE IF output = <<>>
            THEN /\ entry_result' = EntryReturned("None")
                 /\ UNCHANGED <<chunks, persisted>>
            ELSE /\ persisted' = Some(output)
                 /\ entry_result' = EntryReturned("db")
                 /\ UNCHANGED chunks
    /\ UNCHANGED <<entry, sources, idx, built, skipped, entry_args, batch_vars, web_vars, cli_vars, second_vars>>

NextEntry ==
    \/ EntryBuild
    \/ EntryNoLoaders
    \/ EntryStartBatch
    \/ \E i \in Tasks : Acquire(i)
    \/ \E i \in Tasks : Finish(i)
    \/ Flatten
    \/ DedupStep
    \/ DedupReturn
    \/ EntryFinish

SpecEntry == InitEntry /\ [][NextEntry]_vars

EntryDone == entry_result # None

\* The sources for which create_document_loader gives a loader, in order.
RECURSIVE LoadersFor(_)
LoadersFor(srcs) ==
    IF srcs = <<>> THEN <<>>
    ELSE (IF create_document_loader(Head(srcs)) = None THEN <<>>
          ELSE <<create_document_loader(Head(srcs))[1]>>) \o LoadersFor(Tail(srcs))

\* C6: the entry point ends in a hard error (an exception raised to its
\* caller, not a returned empty result) exactly when no loader could be
\* constructed from the sources given, and returns a result in every other
\* case.  (Calls that end in the ValueError of the second
\* create_document_loader call, which C7 is about, are set aside.)
C6_HardErrorIffNoLoader ==
    (EntryDone /\ sources # <<>> /\ entry_result[1].exc # "ValueError") =>
        (entry_result[1].how = "raised" <=> LoadersFor(sources) = <<>>)

\* C7: an entry the factory rejects never makes an entry point raise, and
\* once the building loop is over the loaders are those of all the entries
\* the factory accepts.
C7_UnsupportedSkipped ==
    /\ EntryDone => entry_result[1].how # "raised"
    /\ (idx > Len(sources) /\ ~EntryDone) => built = LoadersFor(sources)

\* What the factory's contract calls unsupported: no http(s):// prefix, no
\* .pdf suffix compared case-insensitively, not an existing local file.
UnsupportedByContract(source) ==
    /\ source.scheme \notin {"http://", "https://"}
    /\ Lower(source.ext) # ".pdf"
    /\ ~source.exists

\* C8: create_document_loader fails exactly on the sources its contract
\* calls unsupported (for every source the building loop has handed it).
C8_FactoryContract ==
    \A i \in 1..Len(sources) :
        i < idx => ((create_document_loader(sources[i]) = None)
                        <=> UnsupportedByContract(sources[i]))

\* C14: load, deduplicate, chunk, persist: what an entry point hands to the
\* vector store is the list of Chunks the Chunker makes, with the chunk_size
\* and chunk_overlap it was called with, of the Documents load_documents
\* returned; never those Documents themselves.
C14_PersistsChunks ==
    persisted # None =>
        /\ persisted[1] # output
        /\ persisted[1] =
              split_documents(output, [chunk_size |-> chunk_size,
                                       chunk_overlap |-> chunk_overlap,
                                       add_start_index |-> TRUE])

ChunkList == chunks[1]

\* A Document's metadata as the claims read it.
MetaOf(doc) == [k \in DOMAIN doc \ {"page_content"} |-> doc[k]]

\* C15: every Chunk carries the full metadata of the Document it was cut
\* from (a web Document's source URL included) and a start_index at which
\* the chunk's content lies in the parent's content.
C15_ChunkMetadata ==
    chunks # None =>
        \A i \in 1..Len(ChunkList) :
            LET c == ChunkList[i]
                parent == output[c.parent]
            IN /\ c.metadata = MetaOf(parent)
               /\ parent.source_type = "web" => c.metadata.source = parent.source
               /\ c.start_index # None
               /\ c.start_index[1] >= 0
               /\ c.page_content.of = parent.page_content
               /\ c.page_content.from = c.start_index[1]
               /\ c.page_content.len > 0
               /\ c.start_index[1] + c.page_content.len <= TextLen(parent.page_content)
\* A web page and a PDF page were each cut into several chunks, one of them
\* starting inside its parent.
C15_Witness ==
    /\ chunks # None
    /\ \E i, j \in 1..Len(ChunkList) :
          /\ ChunkList[i].metadata.source_type = "web"
          /\ ChunkList[i].start_index # None
          /\ ChunkList[i].start_index[1] > 0
          /\ ChunkList[j].metadata.source_type = "pdf"
          /\ ChunkList[j].start_index # None
          /\ ChunkList[j].start_index[1] > 0

\* C16: with chunk_overlap < chunk_size, the Chunks of one Document stand
\* in the output in strictly increasing start_index order (and Documents in
\* list order), each of length at most chunk_size.
C16_ChunkOrderAndSize ==
    (chunks # None /\ chunk_overlap < chunk_size) =>
        /\ \A i \in 1..Len(ChunkList) : ChunkList[i].page_content.len <= chunk_size
        /\ \A i, j \in 1..Len(ChunkList) :
              i < j =>
                 /\ ChunkList[i].parent <= ChunkList[j].parent
                 /\ ChunkList[i].parent = ChunkList[j].parent =>
                        /\ ChunkList[i].start_index # None
                        /\ ChunkList[j].start_index # None
                        /\ ChunkList[i].start_index[1] < ChunkList[j].start_index[1]
\* One Document was cut into at least three overlapping chunks, the last
\* of them shorter than chunk_size.
C16_Witness ==
    /\ chunks # None
    /\ chunk_overlap > 0
    /\ \E i \in 1..Len(ChunkList) :
          /\ i + 2 <= Len(ChunkList)
          /\ ChunkList[i].parent = ChunkList[i + 2].parent
          /\ ChunkList[i + 2].page_content.len < chunk_size
          /\ ChunkList[i + 2].page_content.len > chunk_overlap

(***************************************************************************)
(* SpecCli: cli.parse_args(argv), then cli.validate_args(args, parser).    *)
(* An argv is known by the action word it holds (if any) and the value of  *)
(* each subcommand option it holds after it: Some("") is an option given   *)
(* the empty string, Some(<<>>) a nargs="+" option given no value.  The    *)
(* global options and query's --top_k and --model, which validate_args     *)
(* does not read, are left out.                                            *)
(***************************************************************************)
Actions == {"process", "process-urls", "process-batch", "query"}
Options == {"pdf_path", "urls", "sources_file", "sources", "question"}
ListOptions == {"urls", "sources"}

\* The arguments each subparser of create_parser declares; none of them
\* with required=True.
OptionsOf(action) ==
    CASE action = "process" -> {"pdf_path"}
      [] action = "process-urls" -> {"urls"}
      [] action = "process-batch" -> {"sources_file", "sources"}
      [] action = "query" -> {"question"}

Given(argv) == {o \in Options : argv[o] # None}

\* The Namespace: has names the attributes set on it, and an attribute not
\* set reads as None, as getattr(args, name, None) reads it.
Namespace(action, argv, has) ==
    [action |-> action, has |-> has,
     pdf_path |-> IF "pdf_path" \in has THEN argv.pdf_path ELSE None,
     urls |-> IF "urls" \in has THEN argv.urls ELSE None,
     sources_file |-> IF "sources_file" \in has THEN argv.sources_file ELSE None,
     sources |-> IF "sources" \in has THEN argv.sources ELSE None,
     question |-> IF "question" \in has THEN argv.question ELSE None]

Parsed(args) == [how |-> "returned", args |-> Some(args)]
ParserError == [how |-> "SystemExit", args |-> None]

\* parser.parse_args(argv): argparse ends in parser.error (SystemExit) on an
\* option outside the chosen subparser (or with no subcommand), an action
\* word that is no subcommand, or a nargs="+" option with no value; the
\* subcommand itself may be left out.
parse_args(argv) ==
    IF argv.action = None
    THEN IF Given(argv) = {} THEN Parsed(Namespace(None, argv, {})) ELSE ParserError
    ELSE IF argv.action[1] \notin Actions THEN ParserError
    ELSE IF ~(Given(argv) \subseteq OptionsOf(argv.action[1])) THEN ParserError
    ELSE IF \E o \in Given(argv) \cap ListOptions : argv[o][1] = <<>> THEN ParserError
    ELSE Parsed(Namespace(argv.action, argv, OptionsOf(argv.action[1])))

\* "not x" for an attribute that is None, a str or a list.
falsy_str(x) == x = None \/ x[1] = ""
falsy_list(x) == x = None \/ x[1] = <<>>

\* validate_args(args, parser): how the call ends.  _error raises through
\* parser.error (SystemExit) when a parser is given, ValueError otherwise.
validate_args_either(args, parser) ==
    LET error == IF parser THEN "SystemExit" ELSE "ValueError"
    IN IF falsy_str(args.action) THEN error
       ELSE IF args.action[1] = "process"
       THEN IF falsy_str(args.pdf_path) THEN error ELSE "returned"
       ELSE IF args.action[1] = "process-urls"
       THEN IF falsy_list(args.urls) THEN error ELSE "returned"
       ELSE IF args.action[1] = "process-batch"
       THEN IF falsy_str(args.sources_file) \/ falsy_list(args.sources)
            THEN error ELSE "returned"
       ELSE IF args.action[1] = "query"
       THEN IF falsy_str(args.question) THEN error ELSE "returned"
       ELSE "returned"
validate_args(args, parser) ==
    LET error == IF parser THEN "SystemExit" ELSE "ValueError"
    IN IF falsy_str(args.action) THEN error
       ELSE IF args.action[1] = "process"
       THEN IF falsy_str(args.pdf_path) THEN error ELSE "returned"
       ELSE IF args.action[1] = "process-urls"
       THEN IF falsy_list(args.urls) THEN error ELSE "returned"
       ELSE IF args.action[1] = "process-batch"
       THEN IF falsy_str(args.sources_file) /\ falsy_list(args.sources)
            THEN error ELSE "returned"
       ELSE IF args.action[1] = "query"
       THEN IF falsy_str(args.question) THEN error ELSE "returned"
       ELSE "returned"

ArgvUniverse ==
    [action : {None, Some("bogus")} \cup {Some(a) : a \in Actions},
     pdf_path : {None, Some(""), Some("paper.pdf")},
     urls : {None, Some(<<>>), Some(<<"https://a.test">>)},
     sources_file : {None, Some(""), Some("sources.json")},
     sources : {None, Some(<<>>), Some(<<"paper.pdf", "https://a.test">>)},
     question : {None, Some(""), Some("What is RAG?")}]

InitCli ==
    /\ BatchIdle
    /\ EntryIdle
    /\ WebIdle
    /\ cli_argv \in {Some(argv) : argv \in ArgvUniverse}
    /\ cli_parsed = None
    /\ cli_args = None
    /\ cli_out = None
    /\ SecondIdle

\* args, parser = cli.parse_args(argv)
ParseArgs ==
    /\ cli_argv # None
    /\ cli_parsed = None
    /\ cli_parsed' = Some(parse_args(cli_argv[1]))
    /\ cli_args' = parse_args(cli_argv[1]).args
    /\ UNCHANGED <<cli_argv, cli_out, batch_vars, entry_vars, web_vars, second_vars>>

\* cli.validate_args(args, parser), or cli.validate_args(args): it assigns
\* to nothing.
ValidateArgs ==
    /\ cli_parsed # None
    /\ cli_parsed[1].how = "returned"
    /\ cli_out = None
    /\ \E parser \in BOOLEAN :
          cli_out' = Some([how |-> validate_args(cli_args[1], parser), parser |-> parser])
    /\ UNCHANGED <<cli_argv, cli_parsed, cli_args, batch_vars, entry_vars, web_vars,
                   second_vars>>

NextCli ==
    \/ ParseArgs
    \/ ValidateArgs

SpecCli == InitCli /\ [][NextCli]_vars

\* C17: parse_args itself ends in a parser error (SystemExit) when the
\* action is process and argv holds no --pdf_path.
C17_ProcessNeedsPdfPath ==
    (cli_parsed # None /\ cli_argv[1].action = Some("process")
                      /\ cli_argv[1].pdf_path = None)
        => cli_parsed[1].how = "SystemExit"

ParsedArgs == cli_parsed[1].args[1]
NoAction(args) == args.action = None
\* An argument is lacking when it was not given or was given empty.
Lacking(x) == x = None \/ x[1] = ""
LacksRequired(args) ==
    \/ args.action = Some("process") /\ Lacking(args.pdf_path)
    \/ args.action = Some("process-urls") /\ args.urls = None
    \/ args.action = Some("process-batch") /\ Lacking(args.sources_file)
                                          /\ args.sources = None
    \/ args.action = Some("query") /\ Lacking(args.question)

\* C18: validate_args(args, parser) ends in a parser error (SystemExit)
\* exactly when no action is given or the chosen action lacks its required
\* argument (process: pdf_path; process-urls: urls; process-batch: both
\* sources_file and sources; query: question), and otherwise returns
\* normally with args as parse_args made it.
C18_ValidateArgs ==
    (cli_out # None /\ cli_out[1].parser) =>
        /\ cli_out[1].how = "SystemExit"
              <=> (NoAction(ParsedArgs) \/ LacksRequired(ParsedArgs))
        /\ cli_out[1].how # "SystemExit" =>
              /\ cli_out[1].how = "returned"
              /\ cli_args = Some(ParsedArgs)
\* validate_args returned for a process-batch with --sources and no
\* --sources_file.
C18_Witness ==
    /\ cli_out # None
    /\ cli_out[1].parser
    /\ cli_out[1].how = "returned"
    /\ ParsedArgs.action = Some("process-batch")
    /\ ParsedArgs.sources_file = None
    /\ ParsedArgs.sources # None

====
